---- MODULE Spec2Model ----
(***************************************************************************)
(* Model of revenue2report_o1pro.py: the monthly royalty settlement script *)
(* (song-cost ledger deduction step, settlement report generation and      *)
(* month rollover) together with its pure helpers.                         *)
(*                                                                         *)
(* Text is modelled as sequences of abstract characters.  A character is   *)
(* a short ASCII token standing for one code point, or for one indivisible *)
(* word where the program only ever tests the word as a whole:             *)
(*   "L" "K" "X"  letters (artist names)      "7"  a decimal digit         *)
(*   "e"          a base letter                "acute" U+0301 (Mn)         *)
(*   "e_acute"    U+00E9, the composition of "e" and "acute"               *)
(*   "zw"         U+200B ZERO WIDTH SPACE (Cf, not whitespace)             *)
(*   "tab"        U+0009 (Cc, whitespace)                                  *)
(*   "sp"         U+0020 (Zs)   "nbsp" U+00A0 (Zs)   "isp" U+3000 (Zs)     *)
(*   "ls"         U+2028 LINE SEPARATOR (Zl, whitespace)                   *)
(*   "hapgye" "chonggye"  the Korean words for "sum" and "grand total"     *)
(*   "total" "TOTAL"      the English word in lower and upper case         *)
(* Sheet headers are ASCII stand-ins for the Korean header texts:          *)
(*   "sosok" affiliation, "artist" artist name, "rate" settlement rate,    *)
(*   "prev" prior balance, "curr" current accrual, "deduct" deduction,     *)
(*   "remain" remaining balance.                                           *)
(***************************************************************************)
EXTENDS Integers, Sequences, FiniteSets, TLC

VARIABLES
    song_cost,      \* workbook "input_song cost": tab title -> sheet
    revenue,        \* the three revenue workbooks: source -> period -> body rows
    session,        \* st.session_state
    last_zero,      \* what the last run of the deduction step computed and wrote,
                    \* and the number of the button press that ran it
    last_report,    \* what the last run of generate_report computed, the tab the
                    \* rollover created, and the number of the button press
    runs,           \* number of button presses so far
    nrm_raw,        \* normalizer harness: the raw string
    nrm_key,        \* normalizer harness: clean_artist_name(raw)
    nrm_key2,       \* normalizer harness: clean_artist_name(clean_artist_name(raw))
    nrm_pc,         \* normalizer harness: position
    per_ym,         \* period harness: the period string typed in
    per_once,       \* period harness: the result of the first call
    per_twice,      \* period harness: the result of the call on that result
    per_pc,         \* period harness: position
    cns             \* create_new_spreadsheet harness: the call in progress

vars == <<song_cost, revenue, session, last_zero, last_report, runs,
          nrm_raw, nrm_key, nrm_key2, nrm_pc,
          per_ym, per_once, per_twice, per_pc, cns>>

mainVars == <<song_cost, revenue, session, last_zero, last_report, runs>>
nrmVars == <<nrm_raw, nrm_key, nrm_key2, nrm_pc>>
perVars == <<per_ym, per_once, per_twice, per_pc>>

(***************************************************************************)
(* Bounds                                                                  *)
(***************************************************************************)
MaxLen == 3         \* longest raw string given to the normalizer harness
MaxRuns == 3        \* button presses per behaviour

(***************************************************************************)
(* Generic helpers                                                         *)
(***************************************************************************)
Min(a, b) == IF a <= b THEN a ELSE b

RECURSIVE SumSeq(_)
SumSeq(s) == IF s = <<>> THEN 0 ELSE Head(s) + SumSeq(Tail(s))

RECURSIVE SeqFrom(_, _, _)
\* the tuple <<F(i), ..., F(n)>>
SeqFrom(F(_), i, n) == IF i > n THEN <<>> ELSE <<F(i)>> \o SeqFrom(F, i + 1, n)

\* the tuple <<F(1), ..., F(n)>>
SeqOf(F(_), n) == SeqFrom(F, 1, n)

Contains(s, x) == \E i \in 1..Len(s) : s[i] = x

\* Python s[1:] and s[1:-1] on a list
Slice1(s) == IF Len(s) <= 1 THEN <<>> ELSE SubSeq(s, 2, Len(s))
Slice1m1(s) == IF Len(s) <= 2 THEN <<>> ELSE SubSeq(s, 2, Len(s) - 1)

(***************************************************************************)
(* Characters: unicodedata.category, NFKC, str.strip/upper/lower/isdigit   *)
(***************************************************************************)
ControlChars == {"zw", "tab"}                   \* category C*
SeparatorChars == {"sp", "nbsp", "isp", "ls"}   \* category Z*
WhitespaceChars == {"sp", "nbsp", "isp", "ls", "tab"}   \* str.isspace()
DigitChars == {"7"}

\* compatibility decomposition of one character
Decompose(ch) ==
    CASE ch = "e_acute" -> <<"e", "acute">>
      [] ch = "nbsp"    -> <<"sp">>
      [] ch = "isp"     -> <<"sp">>
      [] OTHER          -> <<ch>>

RECURSIVE DecomposeAll(_)
DecomposeAll(s) ==
    IF s = <<>> THEN <<>> ELSE Decompose(Head(s)) \o DecomposeAll(Tail(s))

RECURSIVE ComposeFrom(_, _)
\* canonical composition: a combining mark directly after its base composes
ComposeFrom(done, rest) ==
    IF rest = <<>> THEN done
    ELSE IF done # <<>> /\ done[Len(done)] = "e" /\ Head(rest) = "acute"
         THEN ComposeFrom(SubSeq(done, 1, Len(done) - 1) \o <<"e_acute">>, Tail(rest))
         ELSE ComposeFrom(Append(done, Head(rest)), Tail(rest))

NFKC(s) == ComposeFrom(<<>>, DecomposeAll(s))

RECURSIVE LStrip(_)
LStrip(s) ==
    IF s # <<>> /\ Head(s) \in WhitespaceChars THEN LStrip(Tail(s)) ELSE s

RECURSIVE RStrip(_)
RStrip(s) ==
    IF s # <<>> /\ s[Len(s)] \in WhitespaceChars
    THEN RStrip(SubSeq(s, 1, Len(s) - 1)) ELSE s

Strip(s) == RStrip(LStrip(s))

UpperChar(ch) ==
    CASE ch = "total" -> "TOTAL"
      [] ch = "e"     -> "E"
      [] OTHER        -> ch

LowerChar(ch) ==
    CASE ch = "TOTAL" -> "total"
      [] ch = "L"     -> "l"
      [] ch = "K"     -> "k"
      [] ch = "X"     -> "x"
      [] OTHER        -> ch

Upper(s) == SeqOf(LAMBDA i : UpperChar(s[i]), Len(s))
Lower(s) == SeqOf(LAMBDA i : LowerChar(s[i]), Len(s))
IsDigit(s) == s # <<>> /\ \A i \in 1..Len(s) : s[i] \in DigitChars

NotControl(ch) == ch \notin ControlChars

clean_artist_name(raw_name) ==
    IF raw_name = <<>> THEN <<>>
    ELSE LET normalized == NFKC(raw_name)
             no_ctrl    == SelectSeq(normalized, NotControl)
             replaced   == SeqOf(LAMBDA i :
                              IF no_ctrl[i] \in SeparatorChars THEN "sp" ELSE no_ctrl[i],
                              Len(no_ctrl))
             replaced2  == SeqOf(LAMBDA i :
                              IF replaced[i] \in {"nbsp", "isp"} THEN "sp" ELSE replaced[i],
                              Len(replaced))
         IN  Strip(replaced2)

\* is_summary_row
is_summary_row(cleaned_artist_name) ==
    IF cleaned_artist_name = <<>> THEN TRUE
    ELSE Upper(cleaned_artist_name) \in {<<"hapgye">>, <<"chonggye">>, <<"TOTAL">>}

(***************************************************************************)
(* Sheets.  A tab is the list of its rows as get_all_values() returns      *)
(* them: row 1 is the header, a data row is a tuple of cells.  The artist  *)
(* and affiliation cells are texts; every other cell is a record:          *)
(*   N(n) a number, EmptyCell, TextCell (text that float() rejects) and    *)
(*   FormulaCell, the sheet formula =E+F-G that the sheet evaluates.       *)
(***************************************************************************)
N(n) == [k |-> "num", v |-> n]
EmptyCell == [k |-> "empty", v |-> 0]
TextCell == [k |-> "text", v |-> 0]
FormulaCell == [k |-> "formula", v |-> 0]

NumericHeaders == {"rate", "prev", "curr", "deduct", "remain"}

\* fixed column positions used by the two batch writes (A = 1)
ColE == 5
ColF == 6
ColG == 7

\* list.index(name); 0 stands for ValueError
Index(header, name) ==
    IF \E i \in 1..Len(header) : header[i] = name
    THEN CHOOSE i \in 1..Len(header) :
            header[i] = name /\ \A j \in 1..(i - 1) : header[j] # name
    ELSE 0

\* value of a cell in sheet arithmetic
CellNum(cell) == IF cell.k = "num" THEN cell.v ELSE 0

EvalRow(header, row) ==
    SeqOf(LAMBDA c :
            IF header[c] \in NumericHeaders /\ row[c].k = "formula"
            THEN N(CellNum(row[ColE]) + CellNum(row[ColF]) - CellNum(row[ColG]))
            ELSE row[c],
          Len(row))

\* Worksheet.get_all_values(): displayed values, formulas evaluated
get_all_values(ws) ==
    SeqOf(LAMBDA r : IF r = 1 THEN ws[1] ELSE EvalRow(ws[1], ws[r]), Len(ws))

\* try: float(cell.replace(",", "")) except: 0.0
float_or_zero(cell) == IF cell.k = "num" THEN cell.v ELSE 0

\* Worksheet.batch_update of one range: rows first_row.. get the values in
\* columns first_col.., USER_ENTERED
batch_update(ws, first_row, first_col, values) ==
    SeqOf(LAMBDA r :
            IF r >= first_row /\ r < first_row + Len(values)
            THEN SeqOf(LAMBDA c :
                    IF c >= first_col /\ c < first_col + Len(values[r - first_row + 1])
                    THEN values[r - first_row + 1][c - first_col + 1]
                    ELSE ws[r][c],
                  Len(ws[r]))
            ELSE ws[r],
          Len(ws))

\* tab titles: <<ym, 1>> is the tab "ym", <<ym, k>> the tab "ym (k)"
Title(ym) == <<ym, 1>>

\* periods are the strings the operator types: sequences of characters
DigitVal(ch) ==
    CASE ch = "0" -> 0 [] ch = "1" -> 1 [] ch = "2" -> 2 [] ch = "3" -> 3
      [] ch = "4" -> 4 [] ch = "5" -> 5 [] ch = "6" -> 6 [] ch = "7" -> 7
      [] ch = "8" -> 8 [] ch = "9" -> 9 [] OTHER -> -1

DigitChar(n) ==
    CASE n = 0 -> "0" [] n = 1 -> "1" [] n = 2 -> "2" [] n = 3 -> "3"
      [] n = 4 -> "4" [] n = 5 -> "5" [] n = 6 -> "6" [] n = 7 -> "7"
      [] n = 8 -> "8" [] OTHER -> "9"

AllDigits(s) == \A i \in 1..Len(s) : DigitVal(s[i]) >= 0

\* int(s) raises ValueError: s is not an optional sign followed by digits
int_raises(s) ==
    \/ s = <<>>
    \/ s = <<"-">>
    \/ ~AllDigits(IF s[1] = "-" THEN Tail(s) ELSE s)

RECURSIVE int(_)
\* int(s) of a string that int() accepts
int(s) ==
    IF s = <<>> THEN 0
    ELSE IF s[1] = "-" THEN 0 - int(Tail(s))
    ELSE int(SubSeq(s, 1, Len(s) - 1)) * 10 + DigitVal(s[Len(s)])

RECURSIVE format_d(_)
\* f"{n}"
format_d(n) ==
    IF n < 0 THEN <<"-">> \o format_d(0 - n)
    ELSE IF n < 10 THEN <<DigitChar(n)>>
    ELSE format_d(n \div 10) \o <<DigitChar(n % 10)>>

\* f"{n:02d}"
format_02d(n) == IF n >= 0 /\ n < 10 THEN <<"0">> \o format_d(n) ELSE format_d(n)

\* s[:4] and s[4:]
Slice04(s) == SubSeq(s, 1, Min(4, Len(s)))
Slice4(s) == SubSeq(s, 5, Len(s))

\* the outcome of a call that ended with an uncaught ValueError
ValueError == <<"ValueError">>

get_next_month_str(ym) ==
    IF int_raises(Slice04(ym)) \/ int_raises(Slice4(ym)) THEN ValueError
    ELSE IF int(Slice4(ym)) + 1 > 12
    THEN format_d(int(Slice04(ym)) + 1) \o format_02d(1)
    ELSE format_d(int(Slice04(ym))) \o format_02d(int(Slice4(ym)) + 1)

get_prev_month_str(ym) ==
    IF int_raises(Slice04(ym)) \/ int_raises(Slice4(ym)) THEN ValueError
    ELSE IF int(Slice4(ym)) - 1 < 1
    THEN format_d(int(Slice04(ym)) - 1) \o format_02d(12)
    ELSE format_d(int(Slice04(ym))) \o format_02d(int(Slice4(ym)) - 1)

(***************************************************************************)
(* Affiliation parsing: re.split(r'[,&/]', s.strip().upper()), each piece  *)
(* stripped, empty pieces dropped.                                         *)
(***************************************************************************)
AffilSeparators == {",", "&", "/"}

UpperAffil(tok) == IF tok = "umag" THEN "UMAG" ELSE IF tok = "fluxus" THEN "FLUXUS" ELSE tok

RECURSIVE re_split(_, _)
\* the pieces of s between separators; cur is the piece being read
re_split(s, cur) ==
    IF s = <<>> THEN <<cur>>
    ELSE IF Head(s) \in AffilSeparators
         THEN <<cur>> \o re_split(Tail(s), <<>>)
         ELSE re_split(Tail(s), Append(cur, Head(s)))

NonEmptyText(t) == t # <<>>

parse_affils(sosok_cell) ==
    LET trimmed == Strip(sosok_cell)
        sosok_str == SeqOf(LAMBDA i : UpperAffil(trimmed[i]), Len(trimmed))
        pieces == re_split(sosok_str, <<>>)
        stripped == SeqOf(LAMBDA i : Strip(pieces[i]), Len(pieces))
    IN  SelectSeq(stripped, NonEmptyText)

(***************************************************************************)
(* The deduction step, section_zero_prepare_song_cost                      *)
(***************************************************************************)
LedgerMarkers == {<<"hapgye">>, <<"chonggye">>}

\* the second, wider summary test of the aggregation loops
SummaryLike(a) ==
    \/ a = <<>>
    \/ Contains(a, "hapgye")
    \/ Contains(a, "chonggye")
    \/ Contains(Lower(a), "total")
    \/ IsDigit(a)

NotSummaryRow(row) == ~is_summary_row(clean_artist_name(row.artist))

\* filtered_umag / filtered_fs / filtered_fy
FilterSummary(body) == SelectSeq(body, NotSummaryRow)

\* prev_remain_dict.get(key, 0.0): the last row of the key wins
prev_remain_get(body_prev, idx_artist_p, idx_remain_p, key) ==
    LET hits == {i \in 1..Len(body_prev) :
                    LET artist_p == clean_artist_name(body_prev[i][idx_artist_p])
                    IN  artist_p # <<>> /\ artist_p \notin LedgerMarkers /\ artist_p = key}
    IN  IF hits = {} THEN 0
        ELSE float_or_zero(body_prev[CHOOSE i \in hits : \A j \in hits : j <= i][idx_remain_p])

RECURSIVE SumAmounts(_, _)
\* the aggregation loops of the deduction step: the sum of the amounts of the
\* rows whose artist text, read through clean_artist_name, is key
SumAmounts(body, key) ==
    IF body = <<>> THEN 0
    ELSE (IF clean_artist_name(Head(body).artist) = key
          THEN float_or_zero(Head(body).amount) ELSE 0) + SumAmounts(Tail(body), key)

\* the keys of sum_umag_dict: each row is tested on its own name
umag_dict_keys(body_umag) ==
    {clean_artist_name(body_umag[i].artist) :
        i \in {j \in 1..Len(body_umag) : ~SummaryLike(clean_artist_name(body_umag[j].artist))}}

\* the keys of sum_flux_song_dict / sum_flux_yt_dict: every row is tested on a_u
flux_dict_keys(body, a_u) ==
    IF SummaryLike(a_u.val) THEN {}
    ELSE {clean_artist_name(body[i].artist) : i \in 1..Len(body)}

\* sum_umag_dict.get(key, 0.0): each row is tested on its own name
sum_umag_get(body_umag, key) ==
    IF SummaryLike(key) THEN 0 ELSE SumAmounts(body_umag, key)

\* the loop variable a_u as the UMAG loops leave it
a_u_after(raw_umag, body_umag) ==
    IF body_umag # <<>>
    THEN [bound |-> TRUE, val |-> clean_artist_name(body_umag[Len(body_umag)].artist)]
    ELSE IF raw_umag # <<>>
         THEN [bound |-> TRUE, val |-> clean_artist_name(raw_umag[Len(raw_umag)].artist)]
         ELSE [bound |-> FALSE, val |-> <<>>]

\* sum_flux_song_dict.get / sum_flux_yt_dict.get: the loops test a_u, the
\* name left over from the UMAG loop, instead of the name of their own row
sum_flux_get(body, key, a_u) ==
    IF SummaryLike(a_u.val) THEN 0 ELSE SumAmounts(body, key)

\* a variant that leaves a row with several affiliations without revenue
total_revenue_single(affils, umag_val, fs_val, fy_val) ==
    IF Len(affils) # 1 THEN 0
    ELSE CASE affils[1] = <<"UMAG">>   -> umag_val
           [] affils[1] = <<"FLUXUS">> -> fs_val + fy_val
           [] OTHER                    -> 0

RECURSIVE total_revenue_of(_, _, _, _)
\* the loop "for one_sosok in affils"
total_revenue_of(affils, umag_val, fs_val, fy_val) ==
    IF affils = <<>> THEN 0
    ELSE (CASE Head(affils) = <<"UMAG">>   -> umag_val
            [] Head(affils) = <<"FLUXUS">> -> fs_val + fy_val
            [] OTHER                       -> 0)
         + total_revenue_of(Tail(affils), umag_val, fs_val, fy_val)

\* actual_deduct = min(total_revenue, can_deduct)
actual_deduct_of(total_revenue, can_deduct) == Min(total_revenue, can_deduct)

\* the record of one pass of the loop over body_new, from its locals
zero_row_of(artist_n, affils, prev_val, curr_val, total_revenue) ==
    IF artist_n = <<>> \/ artist_n \in LedgerMarkers
    THEN [skipped |-> TRUE, artist_n |-> artist_n, affils |-> <<>>,
          prev_val |-> 0, curr_val |-> 0, total_revenue |-> 0,
          can_deduct |-> 0, actual_deduct |-> 0,
          values |-> <<EmptyCell, EmptyCell, EmptyCell>>]
    ELSE [skipped |-> FALSE, artist_n |-> artist_n, affils |-> affils,
          prev_val |-> prev_val, curr_val |-> curr_val,
          total_revenue |-> total_revenue,
          can_deduct |-> prev_val + curr_val,
          actual_deduct |-> actual_deduct_of(total_revenue, prev_val + curr_val),
          values |-> <<N(prev_val), N(curr_val),
                       N(actual_deduct_of(total_revenue, prev_val + curr_val))>>]

\* the revenue lookups of one pass, for the cleaned name artist_n
zero_row_for(artist_n, affils, row_data, idx, body_prev, idx_p, umag, fs, fy, a_u) ==
    zero_row_of(artist_n, affils,
                prev_remain_get(body_prev, idx_p.artist, idx_p.remain, artist_n),
                float_or_zero(row_data[idx.curr]),
                total_revenue_of(affils,
                                 sum_umag_get(umag, artist_n),
                                 sum_flux_get(fs, artist_n, a_u),
                                 sum_flux_get(fy, artist_n, a_u)))

\* one pass of the loop over body_new
zero_row(row_data, idx, body_prev, idx_p, umag, fs, fy, a_u) ==
    zero_row_for(clean_artist_name(row_data[idx.artist]),
                 parse_affils(row_data[idx.sosok]),
                 row_data, idx, body_prev, idx_p, umag, fs, fy, a_u)

RECURSIVE zero_rows_appended(_, _, _, _, _, _, _, _)
\* a loop whose skipped passes append nothing
zero_rows_appended(body_new, idx, body_prev, idx_p, umag, fs, fy, a_u) ==
    IF body_new = <<>> THEN <<>>
    ELSE (IF zero_row(Head(body_new), idx, body_prev, idx_p, umag, fs, fy, a_u).skipped
          THEN <<>>
          ELSE <<zero_row(Head(body_new), idx, body_prev, idx_p, umag, fs, fy, a_u)>>)
         \o zero_rows_appended(Tail(body_new), idx, body_prev, idx_p, umag, fs, fy, a_u)

RECURSIVE zero_rows(_, _, _, _, _, _, _, _)
\* updated_vals_for_def with the locals of every pass, in ledger order
zero_rows(body_new, idx, body_prev, idx_p, umag, fs, fy, a_u) ==
    IF body_new = <<>> THEN <<>>
    ELSE <<zero_row(Head(body_new), idx, body_prev, idx_p, umag, fs, fy, a_u)>>
         \o zero_rows(Tail(body_new), idx, body_prev, idx_p, umag, fs, fy, a_u)

\* umag_artists_from_cost / fluxus_artists_from_cost
artists_from_cost(body_new, idx, sosok) ==
    {clean_artist_name(body_new[i][idx.artist]) :
        i \in {j \in 1..Len(body_new) : Contains(parse_affils(body_new[j][idx.sosok]), sosok)}}

\* umag_count_artists / fluxus_count_artists
count_artists(body_new, idx, sosok) ==
    Cardinality({j \in 1..Len(body_new) : Contains(parse_affils(body_new[j][idx.sosok]), sosok)})

RECURSIVE missing_rows_from(_, _, _, _)
\* the "missing row" loops: one record per row whose artist is not in the set
missing_rows_from(body, artists, i, reason) ==
    IF i > Len(body) THEN <<>>
    ELSE (IF clean_artist_name(body[i].artist) \in artists THEN <<>>
          ELSE <<[row_idx |-> i - 1,
                  raw_artist |-> body[i].artist,
                  cleaned_artist |-> clean_artist_name(body[i].artist),
                  reason |-> reason]>>)
         \o missing_rows_from(body, artists, i + 1, reason)

\* a variant that counts every row that has an artist name
processed_rows_named(body, artists) ==
    Cardinality({i \in 1..Len(body) : clean_artist_name(body[i].artist) # <<>>})

\* umag_processed_rows / fluxus_song_processed_rows / fluxus_yt_processed_rows
processed_rows(body, artists) ==
    Cardinality({i \in 1..Len(body) : clean_artist_name(body[i].artist) \in artists})

Src == {"UMAG", "FLUXUS_SONG", "FLUXUS_YT"}

\* a variant that does not require the deduction header
LedgerHeadersNoDeduct == {"sosok", "artist", "prev", "curr"}

LedgerHeadersZero == {"sosok", "artist", "prev", "curr", "deduct"}

\* the conditions under which the step reports an error and returns
zero_error(sc, rev, new_ym) ==
    LET prev_ym == get_prev_month_str(new_ym)
    IN  \/ Title(prev_ym) \notin DOMAIN sc
        \/ Len(sc[Title(prev_ym)]) = 0
        \/ Index(sc[Title(prev_ym)][1], "artist") = 0
        \/ Index(sc[Title(prev_ym)][1], "remain") = 0
        \/ Title(new_ym) \notin DOMAIN sc
        \/ Len(sc[Title(new_ym)]) = 0
        \/ \E h \in LedgerHeadersZero : Index(sc[Title(new_ym)][1], h) = 0
        \/ \E src \in Src : new_ym \notin DOMAIN rev[src]

ZeroFailed(status, new_ym) ==
    [status |-> status, ym |-> new_ym, rows |-> <<>>, ws |-> <<>>, sum_keys |-> <<>>,
     verification_original |-> <<>>, verification_processed |-> <<>>,
     missing_rows |-> <<>>]

\* the batch write and the reconciliation counts, from the values read
zero_finish(ws_new, new_ym, body_new, idx, body_umag, body_fs, body_fy, rows, umag_artists_from_cost, fluxus_artists_from_cost, sum_keys) ==
    [status |-> "ok", ym |-> new_ym, rows |-> rows, sum_keys |-> sum_keys,
     ws |-> batch_update(ws_new, 2, ColE, SeqOf(LAMBDA i : rows[i].values, Len(rows))),
     verification_original |->
        [umag_artists |-> count_artists(body_new, idx, <<"UMAG">>),
         fluxus_artists |-> count_artists(body_new, idx, <<"FLUXUS">>),
         raw_rows |-> [src \in Src |->
             CASE src = "UMAG" -> Len(body_umag)
               [] src = "FLUXUS_SONG" -> Len(body_fs)
               [] OTHER -> Len(body_fy)]],
     verification_processed |->
        [umag_artists |-> Cardinality(umag_artists_from_cost),
         fluxus_artists |-> Cardinality(fluxus_artists_from_cost),
         processed_rows |-> [src \in Src |->
             CASE src = "UMAG" -> processed_rows(body_umag, umag_artists_from_cost)
               [] src = "FLUXUS_SONG" -> processed_rows(body_fs, fluxus_artists_from_cost)
               [] OTHER -> processed_rows(body_fy, fluxus_artists_from_cost)]],
     missing_rows |-> [src \in Src |->
             CASE src = "UMAG" ->
                     missing_rows_from(body_umag, umag_artists_from_cost, 1, "UMAG_INTEGRATED")
               [] src = "FLUXUS_SONG" ->
                     missing_rows_from(body_fs, fluxus_artists_from_cost, 1, "FLUXUS_SONG")
               [] OTHER ->
                     missing_rows_from(body_fy, fluxus_artists_from_cost, 1, "FLUXUS_YT")]]

\* the aggregation and the ledger loop, from the tabs read
zero_compute(ws_new, new_ym, data_prev, data_new, raw_umag, body_umag, body_fs, body_fy) ==
    LET idx_p == [artist |-> Index(data_prev[1], "artist"),
                  remain |-> Index(data_prev[1], "remain")]
        idx == [sosok  |-> Index(data_new[1], "sosok"),
                artist |-> Index(data_new[1], "artist"),
                prev   |-> Index(data_new[1], "prev"),
                curr   |-> Index(data_new[1], "curr"),
                deduct |-> Index(data_new[1], "deduct")]
    IN  IF ~a_u_after(raw_umag, body_umag).bound /\ (body_fs # <<>> \/ body_fy # <<>>)
        THEN \* NameError: a_u is read before any assignment
             ZeroFailed("crash", new_ym)
        ELSE zero_finish(ws_new, new_ym, Slice1m1(data_new), idx, body_umag, body_fs, body_fy,
                         zero_rows(Slice1m1(data_new), idx, Slice1(data_prev), idx_p,
                                   body_umag, body_fs, body_fy,
                                   a_u_after(raw_umag, body_umag)),
                         artists_from_cost(Slice1m1(data_new), idx, <<"UMAG">>),
                         artists_from_cost(Slice1m1(data_new), idx, <<"FLUXUS">>),
                         [src \in Src |->
                             CASE src = "UMAG" -> umag_dict_keys(body_umag)
                               [] src = "FLUXUS_SONG" ->
                                     flux_dict_keys(body_fs, a_u_after(raw_umag, body_umag))
                               [] OTHER ->
                                     flux_dict_keys(body_fy, a_u_after(raw_umag, body_umag))])

\* the whole button handler up to and including the session writes
zero_step(sc, rev, new_ym) ==
    IF zero_error(sc, rev, new_ym)
    THEN ZeroFailed("error", new_ym)
    ELSE zero_compute(sc[Title(new_ym)], new_ym,
                      get_all_values(sc[Title(get_prev_month_str(new_ym))]),
                      get_all_values(sc[Title(new_ym)]),
                      rev["UMAG"][new_ym],
                      FilterSummary(rev["UMAG"][new_ym]),
                      FilterSummary(rev["FLUXUS_SONG"][new_ym]),
                      FilterSummary(rev["FLUXUS_YT"][new_ym]))

(***************************************************************************)
(* Month rollover: duplicate_worksheet_with_new_name, update_next_month_tab*)
(***************************************************************************)
\* a copy that takes the requested title even when it is in use
duplicate_title_in_use(sc, to_sheet_name) == <<to_sheet_name, 1>>

\* the title the copy gets: "ym", else "ym (k)" for the first free k >= 2
duplicate_title(sc, to_sheet_name) ==
    <<to_sheet_name,
      CHOOSE k \in 1..(Cardinality(DOMAIN sc) + 1) :
          /\ <<to_sheet_name, k>> \notin DOMAIN sc
          /\ \A j \in 1..(k - 1) : <<to_sheet_name, j>> \in DOMAIN sc>>

\* duplicate_sheet copies the cells, formulas included
duplicate_worksheet_with_new_name(sc, from_sheet_name, to_sheet_name) ==
    (duplicate_title(sc, to_sheet_name) :> sc[Title(from_sheet_name)]) @@ sc

\* prev_month_dict.get(key, 0.0); the rows are keyed by str.strip()
prev_month_get(old_body, idx_artist_old, idx_remain_old, key) ==
    LET hits == {i \in 1..Len(old_body) :
                    /\ Strip(old_body[i][idx_artist_old]) # <<>>
                    /\ Strip(old_body[i][idx_artist_old]) \notin LedgerMarkers
                    /\ Strip(old_body[i][idx_artist_old]) = key}
    IN  IF hits = {} THEN 0
        ELSE float_or_zero(old_body[CHOOSE i \in hits : \A j \in hits : j <= i][idx_remain_old])

\* the two ranges of the batch update: F gets the carried balance, G gets "0"
rollover_write(new_ws, content, idx_artist_new, old_body, idx_artist_old, idx_remain_old) ==
    batch_update(
        batch_update(new_ws, 2, ColF,
            SeqOf(LAMBDA i : <<N(prev_month_get(old_body, idx_artist_old, idx_remain_old,
                                                Strip(content[i][idx_artist_new])))>>,
                  Len(content))),
        2, ColG, SeqOf(LAMBDA i : <<N(0)>>, Len(content)))

rollover_from(sc, ym, old_data, new_sc, new_title) ==
    IF \/ Len(new_sc[new_title]) = 0
       \/ Index(new_sc[new_title][1], "artist") = 0
       \/ Index(new_sc[new_title][1], "prev") = 0
       \/ Index(new_sc[new_title][1], "deduct") = 0
    THEN new_sc
    ELSE [new_sc EXCEPT ![new_title] =
            rollover_write(new_sc[new_title],
                           Slice1m1(get_all_values(new_sc[new_title])),
                           Index(new_sc[new_title][1], "artist"),
                           Slice1(old_data),
                           Index(old_data[1], "artist"),
                           Index(old_data[1], "remain"))]

update_next_month_tab(sc, ym) ==
    IF \/ Len(sc[Title(ym)]) = 0
       \/ Index(sc[Title(ym)][1], "artist") = 0
       \/ Index(sc[Title(ym)][1], "remain") = 0
    THEN sc
    ELSE rollover_from(sc, ym, get_all_values(sc[Title(ym)]),
                       duplicate_worksheet_with_new_name(sc, ym, get_next_month_str(ym)),
                       duplicate_title(sc, get_next_month_str(ym)))

(***************************************************************************)
(* Report generation: generate_report                                      *)
(***************************************************************************)
\* code point order of the characters, for sorted()
CharRank(ch) ==
    CASE ch = "tab" -> 1   [] ch = "sp" -> 2      [] ch = "&" -> 3
      [] ch = "," -> 4     [] ch = "/" -> 5       [] ch = "7" -> 6
      [] ch = "E" -> 7     [] ch = "K" -> 8       [] ch = "L" -> 9
      [] ch = "TOTAL" -> 10 [] ch = "X" -> 11     [] ch = "e" -> 12
      [] ch = "k" -> 13    [] ch = "l" -> 14      [] ch = "total" -> 15
      [] ch = "x" -> 16    [] ch = "nbsp" -> 17   [] ch = "e_acute" -> 18
      [] ch = "acute" -> 19 [] ch = "zw" -> 20    [] ch = "ls" -> 21
      [] ch = "isp" -> 22  [] ch = "chonggye" -> 23 [] ch = "hapgye" -> 24
      [] OTHER -> 25

RECURSIVE StrLessEq(_, _)
StrLessEq(a, b) ==
    IF a = <<>> THEN TRUE
    ELSE IF b = <<>> THEN FALSE
    ELSE IF Head(a) = Head(b) THEN StrLessEq(Tail(a), Tail(b))
    ELSE CharRank(Head(a)) < CharRank(Head(b))

RECURSIVE sorted(_)
sorted(S) ==
    IF S = {} THEN <<>>
    ELSE LET m == CHOOSE x \in S : \A y \in S : StrLessEq(x, y)
         IN  <<m>> \o sorted(S \ {m})

\* to_num raises ValueError on text that float() rejects
to_num_raises(cell) == cell.k = "text"
to_num(cell) == IF cell.k = "num" THEN cell.v ELSE 0

LedgerHeadersReport == {"sosok", "artist", "rate", "prev", "curr", "deduct", "remain"}

report_idx(header_sc) ==
    [sosok  |-> Index(header_sc, "sosok"),
     artist |-> Index(header_sc, "artist"),
     rate   |-> Index(header_sc, "rate"),
     prev   |-> Index(header_sc, "prev"),
     curr   |-> Index(header_sc, "curr"),
     deduct |-> Index(header_sc, "deduct"),
     remain |-> Index(header_sc, "remain")]

\* the rows of the ledger that enter artist_cost_dict
cost_rows(rows_sc, idx) ==
    {i \in 1..Len(rows_sc) : Strip(rows_sc[i][idx.artist]) # <<>>}

\* artist_cost_dict[artist] and artist_sosok_dict[artist]: the last row wins
cost_of(rows_sc, idx, artist) ==
    LET hits == {i \in cost_rows(rows_sc, idx) : Strip(rows_sc[i][idx.artist]) = artist}
        row == rows_sc[CHOOSE i \in hits : \A j \in hits : j <= i]
    IN  [rate   |-> to_num(row[idx.rate]),
         prev   |-> to_num(row[idx.prev]),
         curr   |-> to_num(row[idx.curr]),
         deduct |-> to_num(row[idx.deduct]),
         remain |-> to_num(row[idx.remain]),
         affils |-> parse_affils(row[idx.sosok])]

\* the keys of a revenue dict: stripped, non-empty artist texts
revenue_keys(rows) ==
    {Strip(rows[i].artist) : i \in {j \in 1..Len(rows) : Strip(rows[j].artist) # <<>>}}

RECURSIVE revenue_sum(_, _)
\* sum(d["revenue"] for d in dict[artist]); the dicts are keyed by str.strip()
revenue_sum(rows, artist) ==
    IF rows = <<>> THEN 0
    ELSE (IF Strip(Head(rows).artist) = artist
          THEN float_or_zero(Head(rows).amount) ELSE 0) + revenue_sum(Tail(rows), artist)

RECURSIVE report_pairs_unchecked(_, _, _)
\* a variant without the test "artist not in artist_sosok_dict": an artist
\* the ledger does not have gets a UMAG pass with an empty ledger entry
report_pairs_unchecked(all_artists, rows_sc, idx) ==
    IF all_artists = <<>> THEN <<>>
    ELSE (IF Head(all_artists) \in {Strip(rows_sc[i][idx.artist]) : i \in cost_rows(rows_sc, idx)}
          THEN SeqOf(LAMBDA n : [artist |-> Head(all_artists),
                                 one_sosok |-> cost_of(rows_sc, idx, Head(all_artists)).affils[n],
                                 cost |-> cost_of(rows_sc, idx, Head(all_artists))],
                     Len(cost_of(rows_sc, idx, Head(all_artists)).affils))
          ELSE <<[artist |-> Head(all_artists), one_sosok |-> <<"UMAG">>,
                  cost |-> [rate |-> 0, prev |-> 0, curr |-> 0, deduct |-> 0,
                            remain |-> 0, affils |-> <<<<"UMAG">>>>]]>>)
         \o report_pairs_unchecked(Tail(all_artists), rows_sc, idx)

RECURSIVE report_pairs(_, _, _)
\* the passes of the nested loop "for artist ... for one_sosok in affils"
\* that reach the UMAG or the FLUXUS branch, in order
report_pairs(all_artists, rows_sc, idx) ==
    IF all_artists = <<>> THEN <<>>
    ELSE (IF Head(all_artists) \in {Strip(rows_sc[i][idx.artist]) : i \in cost_rows(rows_sc, idx)}
          THEN SeqOf(LAMBDA n : [artist |-> Head(all_artists),
                                 one_sosok |-> cost_of(rows_sc, idx, Head(all_artists)).affils[n],
                                 cost |-> cost_of(rows_sc, idx, Head(all_artists))],
                     Len(cost_of(rows_sc, idx, Head(all_artists)).affils))
          ELSE <<>>)
         \o report_pairs(Tail(all_artists), rows_sc, idx)

\* the settlement sheet of one pass; final_amount is kept in hundredths
\* (final_amount = post_deduction * (rate_val / 100.0))
settlement(pair, gross, sum_2) ==
    [artist |-> pair.artist, one_sosok |-> pair.one_sosok,
     gross |-> gross, sum_2 |-> sum_2,
     song_cost_for_report |-> pair.cost.prev + pair.cost.curr,
     deduct_val |-> pair.cost.deduct, remain_val |-> pair.cost.remain,
     rate_val |-> pair.cost.rate,
     post_deduction |-> sum_2 - pair.cost.deduct,
     final_amount_x100 |-> (sum_2 - pair.cost.deduct) * pair.cost.rate]

\* abs(a - b) < 1e-3
almost_equal(a, b) ==
    (IF a >= b THEN a - b ELSE b - a) * 1000 < 1

\* the verification record of a settlement sheet ("2) deduction details"):
\* the ledger values against the values put on the sheet, which are the same
\* entries of artist_cost_dict
row_report_item_3(st) ==
    [artist |-> st.artist,
     original_song_cost |-> st.song_cost_for_report,
     report_song_cost |-> st.song_cost_for_report,
     match_song_cost |-> almost_equal(st.song_cost_for_report, st.song_cost_for_report),
     original_deduct |-> st.deduct_val,
     report_deduct |-> st.deduct_val,
     match_deduct |-> almost_equal(st.deduct_val, st.deduct_val),
     original_remain |-> st.remain_val,
     report_remain |-> st.remain_val,
     match_remain |-> almost_equal(st.remain_val, st.remain_val)]

RECURSIVE total_errors(_)
\* verification_summary["total_errors"] after the passes: one for a pass whose
\* deduction details do not all match, one for a rate that does not match
total_errors(settlements) ==
    IF settlements = <<>> THEN 0
    ELSE (IF /\ row_report_item_3(Head(settlements)).match_song_cost
             /\ row_report_item_3(Head(settlements)).match_deduct
             /\ row_report_item_3(Head(settlements)).match_remain
          THEN 0 ELSE 1)
         + (IF almost_equal(Head(settlements).rate_val, Head(settlements).rate_val)
            THEN 0 ELSE 1)
         + total_errors(Tail(settlements))

RECURSIVE report_loop(_, _, _, _, _, _)
\* sum_2 is assigned in the UMAG branch only; the FLUXUS branch reads it
report_loop(pairs, sum_2, rows_or, rows_fs, rows_fy, done) ==
    IF pairs = <<>> THEN [status |-> "ok", settlements |-> done]
    ELSE IF Head(pairs).one_sosok = <<"UMAG">>
    THEN report_loop(Tail(pairs),
                     [bound |-> TRUE, val |-> revenue_sum(rows_or, Head(pairs).artist)],
                     rows_or, rows_fs, rows_fy,
                     Append(done, settlement(Head(pairs),
                                             revenue_sum(rows_or, Head(pairs).artist),
                                             revenue_sum(rows_or, Head(pairs).artist))))
    ELSE IF Head(pairs).one_sosok = <<"FLUXUS">>
    THEN IF ~sum_2.bound
         THEN \* UnboundLocalError: sum_2 is read before any assignment
              [status |-> "crash", settlements |-> done]
         ELSE report_loop(Tail(pairs), sum_2, rows_or, rows_fs, rows_fy,
                          Append(done, settlement(Head(pairs),
                                   revenue_sum(rows_fy, Head(pairs).artist)
                                     + revenue_sum(rows_fs, Head(pairs).artist),
                                   sum_2.val)))
    ELSE report_loop(Tail(pairs), sum_2, rows_or, rows_fs, rows_fy, done)

\* the conditions under which generate_report reports an error and returns
report_error(sc, rev, ym) ==
    \/ Title(ym) \notin DOMAIN sc
    \/ Len(sc[Title(ym)]) = 0
    \/ \E h \in LedgerHeadersReport : Index(sc[Title(ym)][1], h) = 0
    \/ \E src \in Src : ym \notin DOMAIN rev[src]

report_compute(sc, ym, rows_sc, idx, rows_or, rows_fs, rows_fy) ==
    IF \E i \in cost_rows(rows_sc, idx) :
          \E h \in {"rate", "prev", "curr", "deduct", "remain"} :
              to_num_raises(rows_sc[i][Index(get_all_values(sc[Title(ym)])[1], h)])
    THEN [status |-> "crash", settlements |-> <<>>]
    ELSE report_loop(
            report_pairs(
                sorted({a \in {Strip(rows_sc[i][idx.artist]) : i \in cost_rows(rows_sc, idx)}
                               \cup revenue_keys(rows_or) :
                           a # <<>> /\ a \notin LedgerMarkers}),
                rows_sc, idx),
            [bound |-> FALSE, val |-> 0], rows_or, rows_fs, rows_fy, <<>>)

\* generate_report up to the end of the artist loop
generate_report(sc, rev, ym) ==
    IF report_error(sc, rev, ym)
    THEN [status |-> "error", settlements |-> <<>>]
    ELSE report_compute(sc, ym,
                        Slice1m1(get_all_values(sc[Title(ym)])),
                        report_idx(sc[Title(ym)][1]),
                        rev["UMAG"][ym],
                        IF Len(rev["FLUXUS_SONG"][ym]) = 0 THEN <<>>
                        ELSE SubSeq(rev["FLUXUS_SONG"][ym], 1, Len(rev["FLUXUS_SONG"][ym]) - 1),
                        rev["FLUXUS_YT"][ym])

\* section_two_sheet_link_and_verification: the list of double-affiliation
\* artists the warning shows, st.session_state.get("excluded_double_sosok", [])
\* once report_done is set; nothing is shown before
double_sosok_list(sess) ==
    IF "report_done" \notin sess.keys THEN <<>>
    ELSE IF "excluded_double_sosok" \in sess.keys THEN sess.excluded_double_sosok
    ELSE <<>>

(***************************************************************************)
(* Inputs: the ledger tabs of two consecutive periods and the revenue tabs *)
(***************************************************************************)
LedgerPeriods ==
    <<<<"2", "0", "2", "4", "1", "1">>,
      <<"2", "0", "2", "4", "1", "2">>,
      <<"2", "0", "2", "5", "0", "1">>>>
P0 == LedgerPeriods[1]
P1 == LedgerPeriods[2]
P2 == LedgerPeriods[3]
InputPeriods == {P1, P2}

\* the deduction step writes prev, curr, deduct to E:G
LayoutA == <<"no", "sosok", "artist", "rate", "prev", "curr", "deduct", "remain">>
\* update_next_month_tab writes prev to F and deduct to G
LayoutC == <<"no", "sosok", "artist", "rate", "curr", "prev", "deduct", "remain">>
Layouts == {LayoutA, LayoutC}
\* a ledger tab without the deduction column
LayoutNoDeduct == <<"no", "sosok", "artist", "rate", "prev", "curr", "memo", "remain">>
MissingKinds == {"header", "prev_tab", "UMAG", "FLUXUS_SONG", "FLUXUS_YT"}

NameL == <<"L">>
NameK == <<"K">>
Name7 == <<"7">>
\* "K" followed by U+200B: clean_artist_name gives "K", str.strip() keeps it
NameKzw == <<"K", "zw">>
NameTotalRow == <<"hapgye">>
\* artist cells of aggregate rows: the Korean marker, and "total"
MarkerNames == {<<"hapgye">>, <<"total">>}

MkRow(layout, sosok, artist, rate, prev, curr, deduct, remain) ==
    SeqOf(LAMBDA c :
        CASE layout[c] = "sosok"  -> sosok
          [] layout[c] = "artist" -> artist
          [] layout[c] = "rate"   -> rate
          [] layout[c] = "prev"   -> prev
          [] layout[c] = "curr"   -> curr
          [] layout[c] = "deduct" -> deduct
          [] layout[c] = "remain" -> remain
          [] OTHER                -> EmptyCell,
      Len(layout))

\* the second row of the UMAG revenue tab
UmagSecondRows ==
    {[artist |-> NameK, amount |-> N(1)],
     [artist |-> NameK, amount |-> N(-2)],
     [artist |-> Name7, amount |-> N(1)],
     [artist |-> NameKzw, amount |-> N(1)],
     [artist |-> NameTotalRow, amount |-> N(8)]}

\* the remaining-balance cells of a tab are sheet formulas or typed-in numbers
\* that agree with the other cells of their row
RemainKinds == {"formula", "literal"}
RemainCell(kind, n) == IF kind = "formula" THEN FormulaCell ELSE N(n)

SosokCells == {<<"UMAG">>, <<"FLUXUS">>, <<"UMAG", ",", "FLUXUS">>}
SingleSosokCells == {<<"UMAG">>, <<"FLUXUS">>}
\* affiliation cells with a token that is neither UMAG nor FLUXUS
UnknownSosokCells == {<<"E">>, <<"UMAG", ",", "E">>}

NrmIdle ==
    /\ nrm_raw = <<>>
    /\ nrm_key = <<>>
    /\ nrm_key2 = <<>>
    /\ nrm_pc = "idle"

PerIdle ==
    /\ per_ym = <<>>
    /\ per_once = <<>>
    /\ per_twice = <<>>
    /\ per_pc = "idle"

CnsIdle == cns = [pc |-> "idle"]

SessionInit ==
    [keys |-> {}, ym |-> <<>>,
     verification_original |-> <<>>, verification_processed |-> <<>>,
     missing_rows |-> <<>>, report_file_id |-> "", check_dict |-> <<>>]

NoZero == [status |-> "none", ym |-> <<>>, rows |-> <<>>, sum_keys |-> <<>>, at |-> 0]
NoReport == [status |-> "none", ym |-> <<>>, settlements |-> <<>>, new_tab |-> <<>>, at |-> 0]

\* the ledger workbook: the tabs of P0 and P1
LedgerTabs(layout, sosokL, sosokK, remainKind, rateK, currK) ==
    (Title(P0) :> <<layout,
          MkRow(layout, sosokL, NameL, N(50), N(0), N(0), N(0), N(4)),
          MkRow(layout, sosokK, NameK, rateK, N(0), N(0), N(0), N(4)),
          MkRow(layout, <<>>, NameTotalRow, EmptyCell, N(0), N(0), N(0), N(8))>>)
    @@
    (Title(P1) :> <<layout,
          MkRow(layout, sosokL, NameL, N(50), N(0), N(2), N(0),
                RemainCell(remainKind, 2)),
          MkRow(layout, sosokK, NameK, rateK, N(0), currK, N(0),
                RemainCell(remainKind, 0)),
          MkRow(layout, <<>>, NameTotalRow, EmptyCell, N(0), N(2), N(0),
                RemainCell(remainKind, 2))>>)

\* the three revenue workbooks; absent is the source that has no tab for P1
RevenueTabs(umag2, flux1, absent) ==
    [src \in Src |-> [ym \in (IF src = absent THEN InputPeriods \ {P1} ELSE InputPeriods) |->
        CASE src = "UMAG" ->
                <<[artist |-> NameL, amount |-> N(3)],
                  umag2>>
          [] src = "FLUXUS_SONG" ->
                <<[artist |-> flux1, amount |-> N(5)],
                  [artist |-> NameTotalRow, amount |-> N(5)]>>
          [] OTHER ->
                <<[artist |-> flux1, amount |-> N(1)],
                  [artist |-> Name7, amount |-> N(2)]>>]]

\* inputs with every source present
InitComplete ==
    \E layout \in Layouts,
       sosokL \in SosokCells, sosokK \in SingleSosokCells,
       remainKind \in RemainKinds,
       umag2 \in UmagSecondRows,
       flux1 \in {NameK, NameL} :
        /\ song_cost = LedgerTabs(layout, sosokL, sosokK, remainKind, N(100), N(0))
        /\ revenue = RevenueTabs(umag2, flux1, "none")

\* inputs with one source missing: a revenue tab of P1, the ledger tab of the
\* previous period, or the deduction header of the ledger tabs
InitMissing ==
    \E missing \in MissingKinds :
        /\ song_cost =
              IF missing = "header"
              THEN LedgerTabs(LayoutNoDeduct, <<"UMAG">>, <<"UMAG">>, "formula", N(100), N(0))
              ELSE IF missing = "prev_tab"
              THEN [t \in {Title(P1)} |->
                      LedgerTabs(LayoutA, <<"UMAG">>, <<"UMAG">>, "formula", N(100), N(0))[t]]
              ELSE LedgerTabs(LayoutA, <<"UMAG">>, <<"UMAG">>, "formula", N(100), N(0))
        /\ revenue = RevenueTabs([artist |-> NameK, amount |-> N(1)], NameL, missing)

\* inputs with text typed into the rate and accrual cells of one ledger row
InitMalformed ==
    \E layout \in Layouts :
        /\ song_cost = LedgerTabs(layout, <<"UMAG">>, <<"UMAG">>, "formula", TextCell, TextCell)
        /\ revenue = RevenueTabs([artist |-> NameK, amount |-> N(1)], NameL, "none")

\* inputs whose ledger tabs have an aggregate row between the artist rows
InitMarkerRow ==
    \E layout \in Layouts, name \in MarkerNames :
        /\ song_cost =
              [t \in {Title(P0), Title(P1)} |->
                  <<layout,
                    LedgerTabs(layout, <<"UMAG">>, <<"UMAG">>, "formula", N(100), N(0))[t][2],
                    MkRow(layout, <<>>, name, EmptyCell, N(0), N(2), N(0), FormulaCell),
                    LedgerTabs(layout, <<"UMAG">>, <<"UMAG">>, "formula", N(100), N(0))[t][3],
                    LedgerTabs(layout, <<"UMAG">>, <<"UMAG">>, "formula", N(100), N(0))[t][4]>>]
        /\ revenue = RevenueTabs([artist |-> NameK, amount |-> N(1)], NameL, "none")

\* inputs whose ledger tabs start with a row without artist and end with an
\* artist row: the operator has not entered the aggregate row
InitNoTotalRow ==
    \E layout \in Layouts :
        /\ song_cost =
              [t \in {Title(P0), Title(P1)} |->
                  <<layout,
                    MkRow(layout, <<>>, <<>>, EmptyCell, N(0), N(2), N(0), FormulaCell),
                    LedgerTabs(layout, <<"UMAG">>, <<"UMAG">>, "formula", N(100), N(0))[t][2],
                    LedgerTabs(layout, <<"UMAG">>, <<"UMAG">>, "formula", N(100), N(0))[t][3]>>]
        /\ revenue = RevenueTabs([artist |-> NameK, amount |-> N(1)], NameL, "none")

\* inputs with an affiliation token the program does not know
InitUnknown ==
    \E layout \in Layouts, sosokL \in UnknownSosokCells :
        /\ song_cost = LedgerTabs(layout, sosokL, <<"UMAG">>, "formula", N(100), N(0))
        /\ revenue = RevenueTabs([artist |-> Name7, amount |-> N(1)], NameL, "none")

Init ==
    /\ NrmIdle
    /\ PerIdle
    /\ CnsIdle
    /\ (InitComplete \/ InitMissing \/ InitMalformed \/ InitUnknown
          \/ InitMarkerRow \/ InitNoTotalRow)
    /\ session = SessionInit
    /\ last_zero = NoZero
    /\ last_report = NoReport
    /\ runs = 0

\* button "0) fix the song cost file" pressed with the period new_ym
section_zero_prepare_song_cost(new_ym) ==
    /\ runs < MaxRuns
    /\ runs' = runs + 1
    /\ \E r \in {zero_step(song_cost, revenue, new_ym)} :
           /\ song_cost' = IF r.status = "ok"
                           THEN [song_cost EXCEPT ![Title(new_ym)] = r.ws]
                           ELSE song_cost
           /\ session' = IF r.status = "ok"
                         THEN [session EXCEPT
                                 !.ym = new_ym,
                                 !.keys = @ \cup {"ym", "verification_original",
                                                  "missing_rows", "verification_processed",
                                                  "song_cost_prepared"},
                                 !.verification_original = r.verification_original,
                                 !.verification_processed = r.verification_processed,
                                 !.missing_rows = r.missing_rows]
                         ELSE [session EXCEPT !.ym = new_ym, !.keys = @ \cup {"ym"}]
           /\ last_zero' = [status |-> r.status, ym |-> new_ym, rows |-> r.rows,
                            sum_keys |-> r.sum_keys, at |-> runs + 1]
    /\ UNCHANGED <<revenue, last_report>>
    /\ UNCHANGED nrmVars
    /\ UNCHANGED perVars
    /\ UNCHANGED cns

\* button "start the settlement report" pressed with the period ym
section_one_report_input(ym) ==
    /\ runs < MaxRuns
    /\ runs' = runs + 1
    /\ \E r \in {generate_report(song_cost, revenue, ym)} :
           /\ song_cost' = IF r.status = "ok"
                           THEN update_next_month_tab(song_cost, ym)
                           ELSE song_cost
           /\ session' = IF r.status = "crash"
                         THEN [session EXCEPT !.ym = ym,
                                              !.keys = @ \cup {"ym", "report_date"}]
                         ELSE [session EXCEPT
                                 !.ym = ym,
                                 !.keys = @ \cup {"ym", "report_date", "report_done",
                                                  "report_file_id", "check_dict"},
                                 !.report_file_id = IF r.status = "ok" THEN "out_file_id" ELSE ""]
           /\ last_report' = [status |-> r.status, ym |-> ym, settlements |-> r.settlements,
                             new_tab |-> IF r.status = "ok"
                                         THEN duplicate_title(song_cost, get_next_month_str(ym))
                                         ELSE <<>>,
                             at |-> runs + 1]
    /\ UNCHANGED <<revenue, last_zero>>
    /\ UNCHANGED nrmVars
    /\ UNCHANGED perVars
    /\ UNCHANGED cns

Next ==
    \/ \E new_ym \in InputPeriods : section_zero_prepare_song_cost(new_ym)
    \/ \E ym \in InputPeriods : section_one_report_input(ym)

Spec == Init /\ [][Next]_vars

(***************************************************************************)
(* Normalizer harness                                                      *)
(***************************************************************************)
NormChars == {"L", "e", "acute", "e_acute", "zw", "tab", "sp", "isp", "ls"}

RECURSIVE StringsUpTo(_)
StringsUpTo(n) ==
    IF n = 0 THEN {<<>>}
    ELSE LET shorter == StringsUpTo(n - 1)
         IN  shorter \cup {Append(s, c) : s \in {t \in shorter : Len(t) = n - 1},
                                          c \in NormChars}

MainIdle ==
    /\ song_cost = <<>>
    /\ revenue = <<>>
    /\ session = <<>>
    /\ last_zero = <<>>
    /\ last_report = <<>>
    /\ runs = 0

InitNorm ==
    /\ MainIdle
    /\ PerIdle
    /\ CnsIdle
    /\ nrm_raw \in StringsUpTo(MaxLen)
    /\ nrm_key = <<>>
    /\ nrm_key2 = <<>>
    /\ nrm_pc = "raw"

\* key = clean_artist_name(raw)
NormalizeRaw ==
    /\ nrm_pc = "raw"
    /\ nrm_key' = clean_artist_name(nrm_raw)
    /\ nrm_pc' = "once"
    /\ UNCHANGED <<nrm_raw, nrm_key2>>
    /\ UNCHANGED mainVars
    /\ UNCHANGED perVars
    /\ UNCHANGED cns

\* key2 = clean_artist_name(key)
NormalizeKey ==
    /\ nrm_pc = "once"
    /\ nrm_key2' = clean_artist_name(nrm_key)
    /\ nrm_pc' = "twice"
    /\ UNCHANGED <<nrm_raw, nrm_key>>
    /\ UNCHANGED mainVars
    /\ UNCHANGED perVars
    /\ UNCHANGED cns

NextNorm == NormalizeRaw \/ NormalizeKey

SpecNorm == InitNorm /\ [][NextNorm]_vars

(***************************************************************************)
(* Period harness: get_next_month_str and get_prev_month_str applied to a  *)
(* six-digit period, then the opposite function applied to the result      *)
(***************************************************************************)
PeriodYears ==
    {<<"0", "0", "0", "1">>, <<"0", "9", "9", "9">>, <<"1", "0", "0", "0">>,
     <<"2", "0", "2", "4">>, <<"9", "9", "9", "9">>}
PeriodMonths == {format_02d(m) : m \in 1..12}

InitPeriod ==
    /\ MainIdle
    /\ NrmIdle
    /\ CnsIdle
    /\ per_ym \in {y \o m : y \in PeriodYears, m \in PeriodMonths}
    /\ per_once = <<>>
    /\ per_twice = <<>>
    /\ per_pc = "typed"

\* once = get_next_month_str(ym)
PeriodNext ==
    /\ per_pc = "typed"
    /\ per_once' = get_next_month_str(per_ym)
    /\ per_pc' = "next"
    /\ UNCHANGED <<per_ym, per_twice>>
    /\ UNCHANGED mainVars
    /\ UNCHANGED nrmVars
    /\ UNCHANGED cns

\* once = get_prev_month_str(ym)
PeriodPrev ==
    /\ per_pc = "typed"
    /\ per_once' = get_prev_month_str(per_ym)
    /\ per_pc' = "prev"
    /\ UNCHANGED <<per_ym, per_twice>>
    /\ UNCHANGED mainVars
    /\ UNCHANGED nrmVars
    /\ UNCHANGED cns

\* twice = get_prev_month_str(get_next_month_str(ym))
PeriodNextPrev ==
    /\ per_pc = "next"
    /\ per_twice' = get_prev_month_str(per_once)
    /\ per_pc' = "next_prev"
    /\ UNCHANGED <<per_ym, per_once>>
    /\ UNCHANGED mainVars
    /\ UNCHANGED nrmVars
    /\ UNCHANGED cns

\* twice = get_next_month_str(get_prev_month_str(ym))
PeriodPrevNext ==
    /\ per_pc = "prev"
    /\ per_twice' = get_next_month_str(per_once)
    /\ per_pc' = "prev_next"
    /\ UNCHANGED <<per_ym, per_once>>
    /\ UNCHANGED mainVars
    /\ UNCHANGED nrmVars
    /\ UNCHANGED cns

NextPeriod == PeriodNext \/ PeriodPrev \/ PeriodNextPrev \/ PeriodPrevNext

SpecPeriod == InitPeriod /\ [][NextPeriod]_vars

(***************************************************************************)
(* create_new_spreadsheet harness: one call, the Drive API answering each  *)
(* request with a result or an HttpError.  cns.files are the ids of the    *)
(* files of the requested name in the folder, cns.calls the requests made  *)
(* so far with their answers, cns.sleeps the seconds slept.                *)
(***************************************************************************)
max_attempts == 5

RateLimit == [status |-> 403, text |-> "userRateLimitExceeded"]
HttpErrors ==
    {RateLimit,
     [status |-> 403, text |-> "insufficientPermissions"],
     [status |-> 429, text |-> "userRateLimitExceeded"],
     [status |-> 500, text |-> "backendError"]}
NoHttpError == [status |-> 200, text |-> ""]

RECURSIVE Pow2(_)
Pow2(n) == IF n = 0 THEN 1 ELSE 2 * Pow2(n - 1)

\* a variant of the retry test that allows a retry at the last attempt
retry_allowed_at_last(e, attempt) ==
    e.status = 403 /\ e.text = "userRateLimitExceeded" /\ attempt <= max_attempts

\* e.resp.status == 403 and "userRateLimitExceeded" in str(e) and attempt < max_attempts
retry_allowed(e, attempt) ==
    e.status = 403 /\ e.text = "userRateLimitExceeded" /\ attempt < max_attempts

\* except HttpError as e: sleep and call again with attempt + 1, or raise e
except_HttpError(c, api, e) ==
    IF retry_allowed(e, c.attempt)
    THEN [c EXCEPT !.pc = "list",
                   !.attempt = @ + 1,
                   !.sleeps = Append(@, Pow2(c.attempt)),
                   !.calls = Append(@, [api |-> api, answer |-> e])]
    ELSE [c EXCEPT !.pc = "raised",
                   !.out = e,
                   !.calls = Append(@, [api |-> api, answer |-> e])]

InitCreate ==
    /\ MainIdle
    /\ NrmIdle
    /\ PerIdle
    /\ \E files \in {<<>>, <<"id_a">>, <<"id_a", "id_b">>} :
          cns = [pc |-> "list", attempt |-> 1, files |-> files, sleeps |-> <<>>,
                 calls |-> <<>>, out |-> NoHttpError]

\* drive_svc.files().list(...).execute() and the test "if files"
ListFiles(e) ==
    /\ cns.pc = "list"
    /\ cns' = IF e # NoHttpError THEN except_HttpError(cns, "list", e)
              ELSE IF cns.files # <<>>
              THEN [cns EXCEPT !.pc = "returned", !.out = cns.files[1],
                               !.calls = Append(@, [api |-> "list", answer |-> e])]
              ELSE [cns EXCEPT !.pc = "create",
                               !.calls = Append(@, [api |-> "list", answer |-> e])]
    /\ UNCHANGED mainVars
    /\ UNCHANGED nrmVars
    /\ UNCHANGED perVars

\* drive_svc.files().create(body=file_metadata).execute() and return file["id"]
CreateFile(e) ==
    /\ cns.pc = "create"
    /\ cns' = IF e # NoHttpError THEN except_HttpError(cns, "create", e)
              ELSE [cns EXCEPT !.pc = "returned", !.out = "id_new",
                               !.files = Append(@, "id_new"),
                               !.calls = Append(@, [api |-> "create", answer |-> e])]
    /\ UNCHANGED mainVars
    /\ UNCHANGED nrmVars
    /\ UNCHANGED perVars

NextCreate ==
    \/ \E e \in HttpErrors \cup {NoHttpError} : ListFiles(e)
    \/ \E e \in HttpErrors \cup {NoHttpError} : CreateFile(e)

\* the call runs on: every request gets an answer
SpecCreate == InitCreate /\ [][NextCreate]_vars /\ WF_vars(NextCreate)

(***************************************************************************)
(* Reference notions of the claims about the deduction step                *)
(***************************************************************************)
\* the sum of an artist's amounts in one revenue tab of a period
SourceRevenue(src, ym, artist_n) == SumAmounts(revenue[src][ym], artist_n)

\* the artist's revenue in the sources its affiliation tokens map to
MappedRevenue(affils, ym, artist_n) ==
    SumSeq(SeqOf(LAMBDA n :
                    CASE affils[n] = <<"UMAG">> -> SourceRevenue("UMAG", ym, artist_n)
                      [] affils[n] = <<"FLUXUS">> ->
                             SourceRevenue("FLUXUS_SONG", ym, artist_n)
                               + SourceRevenue("FLUXUS_YT", ym, artist_n)
                      [] OTHER -> 0,
                 Len(affils)))

\* the same with the FLUXUS sources left out
UmagRevenue(affils, ym, artist_n) ==
    SumSeq(SeqOf(LAMBDA n :
                    IF affils[n] = <<"UMAG">> THEN SourceRevenue("UMAG", ym, artist_n) ELSE 0,
                 Len(affils)))

\* the last run of the deduction step completed and wrote its values
ZeroDone == last_zero.status = "ok"

\* the ledger rows that run processed
ZeroRows == {i \in 1..Len(last_zero.rows) : ~last_zero.rows[i].skipped}

\* the displayed value of the cell under a header, in data row r of a tab
CellOf(title, r, name) ==
    CellNum(get_all_values(song_cost[title])[r][Index(song_cost[title][1], name)])

\* the data rows of a tab that carry an artist
ArtistRows(title) ==
    {r \in 2..Len(song_cost[title]) :
        LET a == clean_artist_name(song_cost[title][r][Index(song_cost[title][1], "artist")])
        IN  a # <<>> /\ a \notin LedgerMarkers}

(***************************************************************************)
(* C1: for every ledger artist row the deduction step processed, the       *)
(* deduction it wrote equals min(revenue, priorBalance + currentAccrual),  *)
(* revenue being the sum of the artist's amounts in the revenue sources    *)
(* its affiliation maps to.                                                *)
(***************************************************************************)
C1_DeductionIsMin ==
    ZeroDone =>
        \A i \in ZeroRows :
            LET row == last_zero.rows[i]
            IN  row.values[3] =
                    N(Min(MappedRevenue(row.affils, last_zero.ym, row.artist_n),
                          row.values[1].v + row.values[2].v))

(***************************************************************************)
(* C2: every deduction the step computes satisfies                         *)
(* 0 <= deduction <= min(revenue, priorBalance + currentAccrual).          *)
(***************************************************************************)
C2_DeductionBound ==
    ZeroDone =>
        \A i \in ZeroRows :
            LET row == last_zero.rows[i]
            IN  /\ 0 <= row.actual_deduct
                /\ row.actual_deduct <= MappedRevenue(row.affils, last_zero.ym, row.artist_n)
                /\ row.actual_deduct <= row.prev_val + row.curr_val

(***************************************************************************)
(* C3: after the deduction step has run for a period, every artist row of  *)
(* that period's tab holds remainingBalance + deduction = priorBalance +   *)
(* currentAccrual, and a report generated afterwards for the period prints *)
(* values with the same relation.                                          *)
(***************************************************************************)
C3_BalanceConservation ==
    /\ ZeroDone =>
          \A r \in ArtistRows(Title(last_zero.ym)) :
              r < Len(song_cost[Title(last_zero.ym)]) =>
                  CellOf(Title(last_zero.ym), r, "remain") + CellOf(Title(last_zero.ym), r, "deduct")
                    = CellOf(Title(last_zero.ym), r, "prev") + CellOf(Title(last_zero.ym), r, "curr")
    /\ (ZeroDone /\ last_report.ym = last_zero.ym /\ last_report.at > last_zero.at) =>
          \A i \in 1..Len(last_report.settlements) :
              last_report.settlements[i].remain_val + last_report.settlements[i].deduct_val
                = last_report.settlements[i].song_cost_for_report

(***************************************************************************)
(* C4: in every settlement sheet generate_report produces, in the UMAG and *)
(* in the FLUXUS branch, netSettlementAmount = (the artist's own gross     *)
(* revenue - the artist's deduction) x rate / 100.  Amounts are compared   *)
(* in hundredths.                                                          *)
(***************************************************************************)
C4_NetAmount ==
    \A i \in 1..Len(last_report.settlements) :
        LET st == last_report.settlements[i]
        IN  st.final_amount_x100 = (st.gross - st.deduct_val) * st.rate_val

(***************************************************************************)
(* C5: in every settlement generate_report produces, the net amount is not *)
(* negative whenever the rate and the artist's revenue are not negative.   *)
(***************************************************************************)
C5_NetNonNegative ==
    \A i \in 1..Len(last_report.settlements) :
        LET st == last_report.settlements[i]
        IN  (st.rate_val >= 0 /\ st.gross >= 0) =>
                (st.final_amount_x100 >= 0 /\ st.gross - st.deduct_val >= 0)

C7_RolloverCorrect ==
    (last_report.status = "ok" /\ last_report.at > last_zero.at) =>
        \A r \in ArtistRows(last_report.new_tab) :
            CellOf(last_report.new_tab, r, "prev") = CellOf(Title(last_report.ym), r, "remain")

(***************************************************************************)
(* C8: over rollover(P) followed by the deduction step for P+1, the        *)
(* balance available for deduction in P+1 is P's remainingBalance plus the *)
(* accrual newly entered for P+1.  Nothing is entered into the tab of P+1  *)
(* between the two steps, so the newly entered accrual is 0.               *)
(***************************************************************************)
C8_CarryForward ==
    (ZeroDone /\ last_zero.ym = P2) =>
        \A i \in ZeroRows :
            \A r \in ArtistRows(Title(P1)) :
                clean_artist_name(song_cost[Title(P1)][r][Index(song_cost[Title(P1)][1], "artist")])
                    = last_zero.rows[i].artist_n
                => last_zero.rows[i].can_deduct = CellOf(Title(P1), r, "remain")

(***************************************************************************)
(* C9: for every revenue source, the processed row count plus the number   *)
(* of unmatched rows reported equals the raw row count, the raw rows being *)
(* the data rows left after summary-row filtering; every unmatched row is  *)
(* reported with its raw text, its normalized key and a reason.            *)
(***************************************************************************)
C9_ReconciliationComplete ==
    ZeroDone =>
        \A src \in Src :
            LET raw == FilterSummary(revenue[src][last_zero.ym])
                miss == session.missing_rows[src]
            IN  /\ session.verification_original.raw_rows[src] = Len(raw)
                /\ session.verification_processed.processed_rows[src] + Len(miss) = Len(raw)
                /\ \A j \in 1..Len(miss) :
                      /\ miss[j].row_idx + 1 \in 1..Len(raw)
                      /\ miss[j].raw_artist = raw[miss[j].row_idx + 1].artist
                      /\ miss[j].cleaned_artist = clean_artist_name(miss[j].raw_artist)
                      /\ miss[j].reason # ""
                      /\ \A k \in 1..Len(miss) : miss[k].row_idx = miss[j].row_idx => k = j

\* a run that left a UMAG row unmatched and matched another
C9_Witness ==
    /\ ZeroDone
    /\ Len(session.missing_rows["UMAG"]) > 0
    /\ session.verification_processed.processed_rows["UMAG"] > 0
    /\ session.verification_original.raw_rows["UMAG"] = 2

(***************************************************************************)
(* C11: the normalizer is the sole join key in every step: the UMAG        *)
(* revenue the deduction step and the report attribute to a ledger artist  *)
(* is the sum over all UMAG rows whose normalized name equals the artist's *)
(* normalized name, so raw names with one key are one artist.              *)
(***************************************************************************)
C11_SoleJoinKey ==
    /\ ZeroDone =>
          \A i \in ZeroRows :
              last_zero.rows[i].affils = <<<<"UMAG">>>> =>
                  last_zero.rows[i].total_revenue
                    = SourceRevenue("UMAG", last_zero.ym, last_zero.rows[i].artist_n)
    /\ \A i \in 1..Len(last_report.settlements) :
          last_report.settlements[i].one_sosok = <<"UMAG">> =>
              last_report.settlements[i].gross
                = SourceRevenue("UMAG", last_report.ym,
                                clean_artist_name(last_report.settlements[i].artist))

(***************************************************************************)
(* C12: in every revenue source, a row whose normalized artist key is an   *)
(* aggregate marker or purely numeric is excluded from aggregation: no     *)
(* per-source total of the deduction step is kept under such a key.        *)
(***************************************************************************)
C12_SummaryRowsExcluded ==
    ZeroDone =>
        \A src \in Src :
            \A key \in last_zero.sum_keys[src] :
                ~is_summary_row(key) /\ ~IsDigit(key)

(***************************************************************************)
(* C13: a missing source is fatal before any ledger write: when the        *)
(* deduction step is started for a period whose ledger tab, previous       *)
(* ledger tab, a revenue tab or a required ledger header is absent, the    *)
(* step ends with an error and the ledger workbook is left as it was.      *)
(***************************************************************************)
\* the period ym lacks a source in the workbooks sc and rev
MissingSource(sc, rev, ym) ==
    \/ Title(ym) \notin DOMAIN sc
    \/ Title(get_prev_month_str(ym)) \notin DOMAIN sc
    \/ \E src \in Src : ym \notin DOMAIN rev[src]
    \/ /\ Title(ym) \in DOMAIN sc
       /\ \E h \in {"sosok", "artist", "prev", "curr", "deduct"} :
             ~Contains(sc[Title(ym)][1], h)
    \/ /\ Title(get_prev_month_str(ym)) \in DOMAIN sc
       /\ \E h \in {"artist", "remain"} :
             ~Contains(sc[Title(get_prev_month_str(ym))][1], h)

C13_MissingSourceNoWrite ==
    [][(last_zero'.at # last_zero.at /\ MissingSource(song_cost, revenue, last_zero'.ym))
          => (last_zero'.status = "error" /\ song_cost' = song_cost)]_vars

\* a run that stopped because the FLUXUS yt workbook has no tab for the period
C13_Witness ==
    /\ last_zero.status = "error"
    /\ last_zero.at > last_report.at
    /\ Title(last_zero.ym) \in DOMAIN song_cost
    /\ last_zero.ym \notin DOMAIN revenue["FLUXUS_YT"]

(***************************************************************************)
(* C14: a numeric cell that does not parse is taken as 0 and the run goes  *)
(* on: with text in the accrual and rate cells of a ledger row, the        *)
(* deduction step reads the accrual as 0 and the report run reaches its    *)
(* end instead of aborting.                                                *)
(***************************************************************************)
\* the rows of tab ym that hold text in a numeric column
MalformedRows(ym) ==
    IF Title(ym) \notin DOMAIN song_cost THEN {}
    ELSE {r \in 2..Len(song_cost[Title(ym)]) :
             \E c \in 1..Len(song_cost[Title(ym)][1]) :
                 /\ song_cost[Title(ym)][1][c] \in NumericHeaders
                 /\ song_cost[Title(ym)][r][c].k = "text"}

C14_MalformedRecovered ==
    /\ (ZeroDone /\ MalformedRows(last_zero.ym) # {}) =>
           \A r \in MalformedRows(last_zero.ym) :
               r - 1 \in ZeroRows => last_zero.rows[r - 1].curr_val = 0
    /\ (last_report.status # "none" /\ MalformedRows(last_report.ym) # {}) =>
           last_report.status = "ok"

(***************************************************************************)
(* C15: the deduction step is idempotent: run a second time for the same   *)
(* period right after a successful run, it computes the same prior,        *)
(* accrual and deduction for every row, the same reconciliation lists, and *)
(* leaves the ledger as the first run left it.                             *)
(***************************************************************************)
C15_ReinvocationIdempotent ==
    [][(/\ last_zero.status = "ok"
        /\ last_zero.at = runs
        /\ last_zero'.at = runs + 1
        /\ last_zero'.ym = last_zero.ym)
          => /\ last_zero'.rows = last_zero.rows
             /\ session'.verification_original = session.verification_original
             /\ session'.verification_processed = session.verification_processed
             /\ session'.missing_rows = session.missing_rows
             /\ song_cost' = song_cost]_vars

(***************************************************************************)
(* C16: no state is shared across artists: the settlement generate_report  *)
(* produces for an artist is the one it produces when the revenue amounts  *)
(* of every other artist are changed (here: set to 0), the ledger and the  *)
(* artist's own revenue rows being the same.                               *)
(***************************************************************************)
\* the revenue tabs with the amount of every row of another artist set to 0
RevenueOfOnly(artist) ==
    [src \in Src |-> [ym \in DOMAIN revenue[src] |->
        SeqOf(LAMBDA n :
                IF Strip(revenue[src][ym][n].artist) = artist
                THEN revenue[src][ym][n]
                ELSE [artist |-> revenue[src][ym][n].artist, amount |-> N(0)],
              Len(revenue[src][ym]))]]

C16_NoSharedState ==
    (last_report.status = "ok" /\ last_report.at = runs) =>
        \A i \in 1..Len(last_report.settlements) :
            \E r \in {generate_report(song_cost,
                                      RevenueOfOnly(last_report.settlements[i].artist),
                                      last_report.ym)} :
                /\ r.status = "ok"
                /\ \E j \in 1..Len(r.settlements) :
                      r.settlements[j] = last_report.settlements[i]

(***************************************************************************)
(* C17: update_next_month_tab overwrites only the two input columns of the *)
(* tab of P+1: in every artist row the accrual is 0 and the prior balance  *)
(* is the remaining balance of P, and every cell under another header      *)
(* (deduction, remaining balance, rate, affiliation, artist) is the cell   *)
(* of the tab of P it was copied from.                                     *)
(***************************************************************************)
C17_RolloverFrame ==
    (last_report.status = "ok" /\ last_report.at = runs) =>
        /\ \A r \in ArtistRows(last_report.new_tab) :
              /\ CellOf(last_report.new_tab, r, "curr") = 0
              /\ CellOf(last_report.new_tab, r, "prev")
                    = CellOf(Title(last_report.ym), r, "remain")
        /\ \A r \in 1..Len(song_cost[last_report.new_tab]) :
              \A c \in 1..Len(song_cost[last_report.new_tab][1]) :
                  song_cost[last_report.new_tab][1][c] \notin {"prev", "curr"} =>
                      song_cost[last_report.new_tab][r][c]
                        = song_cost[Title(last_report.ym)][r][c]

(***************************************************************************)
(* C18: the deduction step writes only the deduction and the remaining     *)
(* balance of the period: every cell of the ledger under another header    *)
(* (prior balance, accrual, rate, affiliation, artist), in processed and   *)
(* in skipped rows, and every other tab, is after the step what it was     *)
(* before.                                                                 *)
(***************************************************************************)
C18_DeductionFrame ==
    [][(last_zero'.at = runs + 1 /\ last_zero'.status = "ok")
          => /\ DOMAIN song_cost' = DOMAIN song_cost
             /\ \A t \in DOMAIN song_cost :
                   \A r \in 1..Len(song_cost[t]) :
                       \A c \in 1..Len(song_cost[t][1]) :
                           (t # Title(last_zero'.ym)
                              \/ song_cost[t][1][c] \notin {"deduct", "remain"})
                             => song_cost'[t][r][c] = song_cost[t][r][c]]_vars

(***************************************************************************)
(* C19: period arithmetic wraps across year boundaries: for every          *)
(* six-digit period with month 01..12, the month after YYYY12 is           *)
(* (YYYY+1)01, the month before YYYY01 is (YYYY-1)12, both results are     *)
(* six-digit periods with month 01..12, and the previous month of the next *)
(* month, and the next month of the previous month, is the period itself.  *)
(***************************************************************************)
\* a six-digit string whose last two digits are a month
ValidPeriod(s) ==
    /\ Len(s) = 6
    /\ AllDigits(s)
    /\ int(SubSeq(s, 5, 6)) \in 1..12

\* the year of a period, and the four-digit string of a year
YearOf(s) == int(SubSeq(s, 1, 4))
Year4(y) ==
    <<DigitChar((y \div 1000) % 10), DigitChar((y \div 100) % 10),
      DigitChar((y \div 10) % 10), DigitChar(y % 10)>>

C19_PeriodWraps ==
    /\ per_pc = "next" =>
          /\ ValidPeriod(per_once)
          /\ SubSeq(per_ym, 5, 6) = <<"1", "2">> =>
                per_once = Year4(YearOf(per_ym) + 1) \o <<"0", "1">>
    /\ per_pc = "prev" =>
          /\ ValidPeriod(per_once)
          /\ SubSeq(per_ym, 5, 6) = <<"0", "1">> =>
                per_once = Year4(YearOf(per_ym) - 1) \o <<"1", "2">>
    /\ per_pc \in {"next_prev", "prev_next"} => per_twice = per_ym

(***************************************************************************)
(* C20: an ambiguous affiliation is surfaced as a named list: after a      *)
(* report run, every artist of the period's ledger tab whose affiliation   *)
(* cell has more than one token is in the list of double-affiliation       *)
(* artists shown to the operator.                                          *)
(***************************************************************************)
C20_AmbiguousListed ==
    (last_report.status = "ok" /\ last_report.at = runs) =>
        \A r \in ArtistRows(Title(last_report.ym)) :
            LET row == song_cost[Title(last_report.ym)][r]
                header == song_cost[Title(last_report.ym)][1]
            IN  Len(parse_affils(row[Index(header, "sosok")])) > 1 =>
                    Contains(double_sosok_list(session),
                             Strip(row[Index(header, "artist")]))

(***************************************************************************)
(* C21: an artist the revenue names and the ledger does not have is not    *)
(* fatal: generate_report makes no settlement for that artist, and its     *)
(* outcome for the ledger artists (settlements, and whether the run ends)  *)
(* is the outcome of the run on the revenue without that artist's rows.    *)
(* An affiliation token other than UMAG and FLUXUS gets no settlement, and *)
(* it adds nothing to the revenue the deduction step counts for the row.   *)
(***************************************************************************)
\* the artist keys of the ledger tab of ym, as generate_report reads them
LedgerKeys(ym) ==
    {Strip(song_cost[Title(ym)][r][Index(song_cost[Title(ym)][1], "artist")]) :
        r \in 2..(Len(song_cost[Title(ym)]) - 1)} \ {<<>>}

RECURSIVE KeepLedgerRows(_, _)
\* the revenue rows whose artist has a ledger entry
KeepLedgerRows(rows, keys) ==
    IF rows = <<>> THEN <<>>
    ELSE (IF Strip(Head(rows).artist) \in keys THEN <<Head(rows)>> ELSE <<>>)
         \o KeepLedgerRows(Tail(rows), keys)

\* the revenue workbooks with the UMAG tab of ym restricted to ledger artists
RevenueOfLedger(ym) ==
    [revenue EXCEPT !["UMAG"][ym] = KeepLedgerRows(@, LedgerKeys(ym))]

C21_MissingArtistNonFatal ==
    /\ (last_report.status \in {"ok", "crash"} /\ last_report.at = runs) =>
          /\ \A i \in 1..Len(last_report.settlements) :
                /\ last_report.settlements[i].artist \in LedgerKeys(last_report.ym)
                /\ last_report.settlements[i].one_sosok \in {<<"UMAG">>, <<"FLUXUS">>}
          /\ \E r \in {generate_report(song_cost, RevenueOfLedger(last_report.ym),
                                       last_report.ym)} :
                /\ r.status = last_report.status
                /\ r.settlements = last_report.settlements
    /\ ZeroDone =>
          \A i \in ZeroRows :
              (\A n \in 1..Len(last_zero.rows[i].affils) :
                   last_zero.rows[i].affils[n] \notin {<<"UMAG">>, <<"FLUXUS">>})
                => last_zero.rows[i].total_revenue = 0

\* a completed report run on a UMAG tab that names an artist without a ledger
\* entry, with a ledger artist whose cell holds an unknown token
C21_Witness ==
    /\ last_report.status = "ok"
    /\ last_report.at = runs
    /\ revenue_keys(revenue["UMAG"][last_report.ym]) \ LedgerKeys(last_report.ym) # {}
    /\ Len(last_report.settlements) >= 2
    /\ \E r \in ArtistRows(Title(last_report.ym)) :
          LET row == song_cost[Title(last_report.ym)][r]
          IN  Contains(parse_affils(row[Index(song_cost[Title(last_report.ym)][1], "sosok")]),
                       <<"E">>)

(***************************************************************************)
(* C22: numeric drift check: for every settled artist the verification     *)
(* record's match flag for the remaining balance is true exactly when      *)
(* prior + current - deduction is within 0.001 of the remaining balance    *)
(* the ledger holds, and a ledger row for which they differ makes          *)
(* total_errors positive.                                                  *)
(***************************************************************************)
C22_DriftCheck ==
    \A i \in 1..Len(last_report.settlements) :
        LET st == last_report.settlements[i]
        IN  /\ row_report_item_3(st).match_remain
                 <=> almost_equal(st.song_cost_for_report - st.deduct_val, st.remain_val)
            /\ ~almost_equal(st.song_cost_for_report - st.deduct_val, st.remain_val)
                 => total_errors(last_report.settlements) > 0

(***************************************************************************)
(* C23: an affiliation backed by two revenue files gets their sum: for a   *)
(* ledger row whose affiliation is FLUXUS, the revenue the deduction step  *)
(* counts is the sum of the artist's amounts in the FLUXUS song tab plus   *)
(* the sum of the artist's amounts in the FLUXUS video tab, whatever the   *)
(* UMAG tab holds.                                                         *)
(***************************************************************************)
C23_FluxusFilesSummed ==
    ZeroDone =>
        \A i \in ZeroRows :
            last_zero.rows[i].affils = <<<<"FLUXUS">>>> =>
                last_zero.rows[i].total_revenue
                  = SourceRevenue("FLUXUS_SONG", last_zero.ym, last_zero.rows[i].artist_n)
                      + SourceRevenue("FLUXUS_YT", last_zero.ym, last_zero.rows[i].artist_n)

(***************************************************************************)
(* C24: ledger parsing skips the header, the trailing row and the rows     *)
(* whose normalized artist key is empty or is an aggregate marker (the two *)
(* Korean markers, "total", "grand total", in any case), and only those:   *)
(* a data row of the deduction step is skipped exactly when its key is     *)
(* empty or a marker, and no marker row gets a settlement.                 *)
(***************************************************************************)
\* a normalized key that marks an aggregate row
MarkerKey(key) ==
    \/ key = <<>>
    \/ Lower(key) \in {<<"hapgye">>, <<"chonggye">>, <<"total">>, <<"grand", "sp", "total">>}

C24_LedgerRowsSkipped ==
    /\ ZeroDone =>
          \A i \in 1..Len(last_zero.rows) :
              last_zero.rows[i].skipped
                <=> MarkerKey(clean_artist_name(
                        song_cost[Title(last_zero.ym)][i + 1]
                            [Index(song_cost[Title(last_zero.ym)][1], "artist")]))
    /\ \A i \in 1..Len(last_report.settlements) :
          ~MarkerKey(clean_artist_name(last_report.settlements[i].artist))

(***************************************************************************)
(* C25: create_new_spreadsheet retries a rate-limited request (HTTP 403    *)
(* userRateLimitExceeded) after sleeping 2^attempt seconds and always      *)
(* terminates: it makes at most max_attempts attempts and then raises the  *)
(* error; any other HttpError is raised at once; and when a file of the    *)
(* requested name exists it returns that file's id and creates none.       *)
(***************************************************************************)
\* the number of requests to one API among the first n calls
RECURSIVE CallsTo(_, _)
CallsTo(api, n) ==
    IF n = 0 THEN 0
    ELSE (IF cns.calls[n].api = api THEN 1 ELSE 0) + CallsTo(api, n - 1)

C25_Safe ==
    cns.pc # "idle" =>
        \* at most max_attempts attempts, each starting with one list request
        /\ cns.attempt <= 5
        /\ CallsTo("list", Len(cns.calls)) <= 5
        \* the k-th retry slept 2^k seconds
        /\ Len(cns.sleeps) = cns.attempt - 1
        /\ \A k \in 1..Len(cns.sleeps) : cns.sleeps[k] = Pow2(k)
        \* only a rate-limited request is followed by another request
        /\ \A n \in 1..(Len(cns.calls) - 1) :
              cns.calls[n].answer \in {NoHttpError, RateLimit}
        \* an error is raised as it came; the rate limit only at the last attempt
        /\ cns.pc = "raised" =>
              /\ cns.out = cns.calls[Len(cns.calls)].answer
              /\ cns.out # NoHttpError
              /\ cns.out = RateLimit => cns.attempt = 5
        \* an existing file is returned and none is created
        /\ CallsTo("create", Len(cns.calls)) > 0 => Len(cns.files) <= 1
        /\ cns.pc = "returned" =>
              /\ cns.out = cns.files[1]
              /\ Len(cns.files) >= 1
              /\ cns.calls[Len(cns.calls)].answer = NoHttpError

C25_CreateRetries ==
    /\ []C25_Safe
    /\ <>(cns.pc \in {"returned", "raised"})

\* the fifth attempt was rate-limited too and the error was raised
C25_Witness ==
    /\ cns.pc = "raised"
    /\ cns.out = RateLimit
    /\ cns.sleeps = <<2, 4, 8, 16>>

(***************************************************************************)
(* C26: the two ledger writers agree on the column layout: once the        *)
(* deduction step and the rollover have both written, the column the       *)
(* deduction step wrote the prior balance to (E) and the column the        *)
(* rollover wrote the carried balance to (F) are both the column headed    *)
(* prior balance, and the other fixed-position writes (accrual to F,       *)
(* deduction to G; rollover's 0 to G) are under the headers looked up for  *)
(* them.                                                                   *)
(***************************************************************************)
C26_WritersAgree ==
    (ZeroDone /\ last_report.status = "ok") =>
        /\ song_cost[Title(last_zero.ym)][1][ColE] = "prev"
        /\ song_cost[Title(last_zero.ym)][1][ColF] = "curr"
        /\ song_cost[Title(last_zero.ym)][1][ColG] = "deduct"
        /\ song_cost[last_report.new_tab][1][ColF] = "prev"
        /\ song_cost[last_report.new_tab][1][ColG] = "deduct"

(***************************************************************************)
(* C27: rollover never overwrites an existing tab: a report run leaves     *)
(* every tab that existed before it as it was (the source tab and the tab  *)
(* titled exactly P+1 of an earlier run included), and a run that produces *)
(* a report adds exactly one tab, under the title P+1 when that is free    *)
(* and otherwise under "P+1 (k)" for the smallest k >= 2 not in use, so n  *)
(* runs for the same period leave n distinct copies.                       *)
(***************************************************************************)
C27_RolloverKeepsTabs ==
    [][last_report'.at = runs + 1 =>
          /\ \A t \in DOMAIN song_cost :
                t \in DOMAIN song_cost' /\ song_cost'[t] = song_cost[t]
          /\ last_report'.status # "ok" => DOMAIN song_cost' = DOMAIN song_cost
          /\ last_report'.status = "ok" =>
                \E k \in 1..(Cardinality(DOMAIN song_cost) + 1) :
                    /\ DOMAIN song_cost' \ DOMAIN song_cost
                          = {<<get_next_month_str(last_report'.ym), k>>}
                    /\ \A j \in 1..(k - 1) :
                          <<get_next_month_str(last_report'.ym), j>> \in DOMAIN song_cost]_vars

\* the third run for one period has left the copies P+1, "P+1 (2)" and
\* "P+1 (3)"
C27_Witness ==
    /\ last_report.status = "ok"
    /\ last_report.new_tab = <<get_next_month_str(last_report.ym), 3>>
    /\ \A k \in 1..3 : <<get_next_month_str(last_report.ym), k>> \in DOMAIN song_cost

(***************************************************************************)
(* C28: report_done is set only by a run in which generate_report produced *)
(* a report and returned its file id: a run that stops on a fatal error    *)
(* leaves the session without report_done, report_file_id and check_dict,  *)
(* so the sections that test report_done stay locked.                      *)
(***************************************************************************)
C28_ReportDoneOnlyOnSuccess ==
    [][last_report'.at = runs + 1 =>
          \A key \in {"report_done", "report_file_id", "check_dict"} :
              (key \notin session.keys /\ key \in session'.keys) =>
                  /\ last_report'.status = "ok"
                  /\ session'.report_file_id # ""]_vars

(***************************************************************************)
(* C29: the deduction step and the report step agree on revenue: when both *)
(* have run for the same period, every ledger row with a single            *)
(* affiliation that the deduction step processed and that has a settlement *)
(* sheet has, as the revenue total its deduction was computed from, the    *)
(* total from which the sheet's post-deduction amount is computed.         *)
(***************************************************************************)
C29_RevenueAgrees ==
    (ZeroDone /\ last_report.status = "ok" /\ last_report.ym = last_zero.ym) =>
        \A i \in ZeroRows :
            \A j \in 1..Len(last_report.settlements) :
                (/\ Len(last_zero.rows[i].affils) = 1
                 /\ last_report.settlements[j].artist
                       = Strip(song_cost[Title(last_zero.ym)][i + 1]
                                   [Index(song_cost[Title(last_zero.ym)][1], "artist")]))
                    => last_zero.rows[i].total_revenue
                          = last_report.settlements[j].sum_2

(***************************************************************************)
(* C30: the batch write of the deduction step is row-aligned: it has one   *)
(* value row for every ledger row between the header and the last row, in  *)
(* ledger order (a blank one for a row without artist or with a marker),   *)
(* the value row computed from data row k is what columns E to G of sheet  *)
(* row k + 1 hold after the write, and the header and the last row of the  *)
(* tab, aggregate row or not, are left as they were.                       *)
(***************************************************************************)
C30_WriteRowAligned ==
    [][(last_zero'.at = runs + 1 /\ last_zero'.status = "ok") =>
          /\ Len(song_cost'[Title(last_zero'.ym)]) = Len(song_cost[Title(last_zero'.ym)])
          /\ Len(last_zero'.rows) = Len(song_cost[Title(last_zero'.ym)]) - 2
          /\ \A k \in 1..Len(last_zero'.rows) :
                /\ last_zero'.rows[k].artist_n
                      = clean_artist_name(
                            song_cost[Title(last_zero'.ym)][k + 1]
                                [Index(song_cost[Title(last_zero'.ym)][1], "artist")])
                /\ ~last_zero'.rows[k].skipped =>
                      last_zero'.rows[k].curr_val
                         = float_or_zero(
                              get_all_values(song_cost[Title(last_zero'.ym)])[k + 1]
                                  [Index(song_cost[Title(last_zero'.ym)][1], "curr")])
                /\ \A c \in 1..3 :
                      song_cost'[Title(last_zero'.ym)][k + 1][ColE + c - 1]
                         = last_zero'.rows[k].values[c]
          /\ song_cost'[Title(last_zero'.ym)][1] = song_cost[Title(last_zero'.ym)][1]
          /\ song_cost'[Title(last_zero'.ym)][Len(song_cost[Title(last_zero'.ym)])]
                = song_cost[Title(last_zero'.ym)][Len(song_cost[Title(last_zero'.ym)])]]_vars

\* a run whose first pass was skipped and whose second pass wrote to sheet
\* row 3, on a tab whose last row is an artist row
C30_Witness ==
    /\ ZeroDone
    /\ last_zero.at = runs
    /\ Len(last_zero.rows) = 2
    /\ last_zero.rows[1].skipped
    /\ ~last_zero.rows[2].skipped
    /\ song_cost[Title(last_zero.ym)][3][ColG] = N(last_zero.rows[2].actual_deduct)
    /\ song_cost[Title(last_zero.ym)][2][ColG] = EmptyCell
    /\ clean_artist_name(song_cost[Title(last_zero.ym)][4]
                             [Index(song_cost[Title(last_zero.ym)][1], "artist")])
          \notin ({<<>>} \cup LedgerMarkers)

(***************************************************************************)
(* C10: clean_artist_name is idempotent, normalize(normalize(s)) =         *)
(* normalize(s) for every string s, and an empty or whitespace-only input  *)
(* yields the empty key.                                                   *)
(***************************************************************************)
C10_Idempotent ==
    /\ nrm_pc = "twice" => nrm_key2 = nrm_key
    /\ (nrm_pc \in {"once", "twice"} /\ \A i \in 1..Len(nrm_raw) : nrm_raw[i] \in WhitespaceChars)
          => nrm_key = <<>>

====
